---------------------------- MODULE Spec2Model ----------------------------
(***************************************************************************)
(* DIO timing calibration of the ZI HDAWG8 driver                          *)
(* (pycqed/instrument_drivers/physical_instruments/ZurichInstruments/      *)
(* ZI_HDAWG8.py): calibrate_dio_protocol and its helpers.                  *)
(*                                                                         *)
(* Encoding of bus words.  A sample of the 32 bit DIO bus, and every bit   *)
(* mask, is the set of the positions of its 1 bits: {30, 0} is             *)
(* 0x40000001.  a & b is a \cap b, a | b is a \cup b, a ^ b is the         *)
(* symmetric difference, x << n adds n to every position and x >> n        *)
(* subtracts n and drops what falls below 0.  Python integers are          *)
(* unbounded, so no width is lost.  Register values that the code uses as  *)
(* numbers (indices, polarity, slope, shift, delays, codewords) are        *)
(* integers; Bits and ToInt convert between the two.                       *)
(***************************************************************************)
EXTENDS Integers, Sequences, FiniteSets, TLC

(***************************************************************************)
(* Program constants                                                       *)
(***************************************************************************)
NumAwgs == 4
BusWidth == 32
MaxDelay == 6
MidDelay == 3
ShotLimit == 5
TimeoutLimit == 5

AWGS == 0 .. (NumAwgs - 1)
BitPositions == 0 .. (BusWidth - 1)

(***************************************************************************)
(* Bounds of the model                                                     *)
(***************************************************************************)
\* how far outside 0..MaxDelay a requested delay is drawn (SpecSetDelay)
MaxOver == 3
\* width of the integers converted by Bits (mask register values)
MaxMaskBits == 4

(***************************************************************************)
(* Bit vectors                                                             *)
(***************************************************************************)
Shl(w, n) == {b + n : b \in w}
\* the right shift left out
ShrNone(w, n) == w

Shr(w, n) == {b - n : b \in {x \in w : x >= n}}
\* or taken for exclusive or
XorAsOr(a, b) == a \cup b

Xor(a, b) == (a \ b) \cup (b \ a)
Bits(n) == {b \in 0 .. (MaxMaskBits - 1) : (n \div (2 ^ b)) % 2 = 1}

RECURSIVE ToInt(_)
ToInt(w) ==
  IF w = {} THEN 0
  ELSE LET b == CHOOSE x \in w : TRUE IN (2 ^ b) + ToInt(w \ {b})

\* Python truthiness of an integer: non-zero
Truthy(w) == w # {}

\* max() taken for min()
MaxAsMin(S) == CHOOSE x \in S : \A y \in S : x <= y

Max(S) == CHOOSE x \in S : \A y \in S : y <= x

\* set.union taken for set.intersection
RECURSIVE IntersectionAsUnion(_, _)
IntersectionAsUnion(sets, k) ==
  IF k = Len(sets) THEN sets[k]
  ELSE sets[k] \cup IntersectionAsUnion(sets, k + 1)

RECURSIVE Intersection(_, _)
Intersection(sets, k) ==
  IF k = Len(sets) THEN sets[k]
  ELSE sets[k] \cap Intersection(sets, k + 1)

(***************************************************************************)
(* _get_edges(value, last_value, mask)                                     *)
(***************************************************************************)
\* rising and falling edges exchanged
GetEdgesSwapped(value, last_value, mask) ==
  [re |-> (last_value \ value) \cap mask,
   fe |-> (value \ last_value) \cap mask]

\* falling edges never reported
GetEdgesRisingOnly(value, last_value, mask) ==
  [re |-> ((value \ last_value) \cap value) \cap mask, fe |-> {}]

GetEdges(value, last_value, mask) ==
  LET changed == Xor(value, last_value)
  IN  [re |-> (changed \cap value) \cap mask,
       fe |-> (changed \ value) \cap mask]

(***************************************************************************)
(* _is_dio_strb_symmetric(data, bits)                                      *)
(* One iteration of the inner loop over the samples of one strobe bit; st  *)
(* holds the loop's locals, broke is set by the break.                     *)
(***************************************************************************)
\* the low count running before any edge has been seen
StrbInitCounting ==
  [count_low |-> TRUE, count_high |-> FALSE, strobe_low |-> 0,
   strobe_high |-> 0, last_strobe |-> "None", count_ok |-> TRUE,
   broke |-> FALSE]

StrbInit ==
  [count_low |-> FALSE, count_high |-> FALSE, strobe_low |-> 0,
   strobe_high |-> 0, last_strobe |-> "None", count_ok |-> TRUE,
   broke |-> FALSE]

\* a run compared whether or not the other level was counted before
RunCountedAlways(n) == TRUE

\* lines 811 and 819: the other level has a counted run to compare with
RunCounted(n) == n > 0

StrbStep(st, d, bit) ==
  LET curr_strobe == bit \in d
      failHigh == st.count_high /\ ~curr_strobe
                  /\ RunCounted(st.strobe_low)
                  /\ st.strobe_low # st.strobe_high
      high1 == IF st.count_high /\ curr_strobe
               THEN st.strobe_high + 1 ELSE st.strobe_high
      failLow == st.count_low /\ curr_strobe
                 /\ RunCounted(high1) /\ st.strobe_low # high1
      low1 == IF st.count_low /\ ~curr_strobe
              THEN st.strobe_low + 1 ELSE st.strobe_low
      rose == st.last_strobe = "False" /\ curr_strobe
      fell == st.last_strobe = "True" /\ ~curr_strobe
  IN  IF failHigh
      THEN [st EXCEPT !.count_ok = FALSE, !.broke = TRUE]
      ELSE IF failLow
      THEN [st EXCEPT !.strobe_high = high1, !.count_ok = FALSE,
                      !.broke = TRUE]
      ELSE [count_low |-> IF rose THEN FALSE
                          ELSE IF fell THEN TRUE ELSE st.count_low,
            count_high |-> IF rose THEN TRUE
                           ELSE IF fell THEN FALSE ELSE st.count_high,
            strobe_low |-> IF fell THEN 0 ELSE low1,
            strobe_high |-> IF rose THEN 0 ELSE high1,
            last_strobe |-> IF curr_strobe THEN "True" ELSE "False",
            count_ok |-> st.count_ok,
            broke |-> FALSE]

RECURSIVE StrbLoop(_, _, _, _)
StrbLoop(st, data, n, bit) ==
  IF n > Len(data) \/ st.broke THEN st
  ELSE StrbLoop(StrbStep(st, data[n], bit), data, n + 1, bit)

RECURSIVE StrbBits(_, _, _)
StrbBits(data, bits, k) ==
  IF k > Len(bits) THEN TRUE
  ELSE IF ~StrbLoop(StrbInit, data, 1, bits[k]).count_ok THEN FALSE
  ELSE StrbBits(data, bits, k + 1)

\* count_ok started afresh for every bit: the last bit alone decides
IsDioStrbSymmetricLastBit(data, bits) ==
  \/ bits = <<>>
  \/ StrbLoop(StrbInit, data, 1, bits[Len(bits)]).count_ok

IsDioStrbSymmetric(data, bits) == StrbBits(data, bits, 1)

(***************************************************************************)
(* _analyze_dio_data(data, strb_mask, strb_slope, vld_mask, vld_polarity,  *)
(*                   cw_mask, cw_shift)                                    *)
(* p is the protocol record; n is the 0-based position of sample d.        *)
(***************************************************************************)
\* valid taken as active-high whatever the polarity
VldActiveHigh(d, p) == (d \cap p.vld_mask) # {}

\* lines 878-879: vld_active
VldActive(d, p) ==
  \/ (p.vld_polarity % 2 = 1 /\ (d \cap p.vld_mask) = {})
  \/ ((p.vld_polarity \div 2) % 2 = 1 /\ (d \cap p.vld_mask) # {})

\* no codeword taken where a timing violation is recorded
AppendsUnlessViolation(strb_edge, vld_active, violation) ==
  strb_edge /\ vld_active /\ ~violation

\* line 889: the test that guards codewords.append; violation is what
\* lines 883-886 decided for the same position
Appends(strb_edge, vld_active, violation) == strb_edge /\ vld_active

\* the two tests made one after the other, each with its own append
ViolationAppendsBoth(tvs, n, strb_edge, vld_edge, d_edge) ==
  LET t1 == IF strb_edge /\ vld_edge THEN Append(tvs, n) ELSE tvs
  IN  IF strb_edge /\ d_edge THEN Append(t1, n) ELSE t1

\* lines 883-886: if / elif, at most one append of position n
ViolationAppends(tvs, n, strb_edge, vld_edge, d_edge) ==
  IF strb_edge /\ vld_edge THEN Append(tvs, n)
  ELSE IF strb_edge /\ d_edge THEN Append(tvs, n)
  ELSE tvs

AnalyzeStep(acc, n, d, last_d, p) ==
  LET strb == GetEdges(d, last_d, p.strb_mask)
      strb_re == IF p.strb_slope = 0 THEN TRUE
                 ELSE IF p.strb_slope = 1 THEN Truthy(strb.re)
                 ELSE IF p.strb_slope = 2 THEN FALSE
                 ELSE Truthy(strb.re)
      strb_fe == IF p.strb_slope = 0 THEN TRUE
                 ELSE IF p.strb_slope = 1 THEN FALSE
                 ELSE IF p.strb_slope = 2 THEN Truthy(strb.fe)
                 ELSE Truthy(strb.fe)
      vld == GetEdges(d, last_d, p.vld_mask)
      vld_re == p.vld_polarity # 0 /\ Truthy(vld.re)
      vld_fe == p.vld_polarity # 0 /\ Truthy(vld.fe)
      cw == GetEdges(d, last_d, Shl(p.cw_mask, p.cw_shift))
      d_re == p.cw_mask # {} /\ Truthy(cw.re)
      d_fe == p.cw_mask # {} /\ Truthy(cw.fe)
      vld_active == VldActive(d, p)
      codeword == ToInt(Shr(d, p.cw_shift) \cap p.cw_mask)
      violation == \/ ((strb_re \/ strb_fe) /\ (vld_re \/ vld_fe))
                   \/ ((strb_re \/ strb_fe) /\ (d_re \/ d_fe))
  IN  [codewords |-> IF Appends(strb_re \/ strb_fe, vld_active, violation)
                     THEN Append(acc.codewords, codeword)
                     ELSE acc.codewords,
       timing_violations |->
         ViolationAppends(acc.timing_violations, n, strb_re \/ strb_fe,
                          vld_re \/ vld_fe, d_re \/ d_fe)]

RECURSIVE AnalyzeLoop(_, _, _, _)
AnalyzeLoop(acc, data, n, p) ==
  IF n >= Len(data) THEN acc
  ELSE AnalyzeLoop(AnalyzeStep(acc, n, data[n + 1], data[n], p),
                   data, n + 1, p)

AnalyzeDioData(data, p) ==
  AnalyzeLoop([codewords |-> <<>>, timing_violations |-> <<>>], data, 1, p)

(***************************************************************************)
(* _set_dio_delay(awg, strb_mask, data_mask, delay)                        *)
(* regs = [index |-> awgs/n/dio/delay/index, value |-> the delay line the  *)
(* value register addresses through the index register], both per AWG;    *)
(* log |-> the seti calls of the latest _set_dio_delay, in order.          *)
(***************************************************************************)
\* the index register of AWG 0 written whatever the AWG
SetiDelayIndexFirstAwg(regs, awg, i) ==
  [regs EXCEPT !.index[0] = i,
               !.log = Append(@, [node |-> "index", awg |-> 0, value |-> i])]

\* line 768
SetiDelayIndex(regs, awg, i) ==
  [regs EXCEPT !.index[awg] = i,
               !.log = Append(@, [node |-> "index", awg |-> awg,
                                  value |-> i])]

\* lines 770-776
SetiDelayValue(regs, awg, v) ==
  [regs EXCEPT !.value[awg][regs.index[awg]] = v,
               !.log = Append(@, [node |-> "value", awg |-> awg,
                                  value |-> v])]

\* a delay above the midpoint clamped to the midpoint
ClampDelayToMid(delay) ==
  IF delay > MidDelay THEN MidDelay ELSE delay

\* lines 754-758: the two range tests on the requested delay
ClampDelay(delay) ==
  IF delay > MaxDelay THEN MaxDelay ELSE delay

\* the strobe side not taken relative to the midpoint
StrbDelayFromZero(delay) == delay

\* lines 760-765
StrbDelay(delay) == IF delay > MidDelay THEN delay - MidDelay ELSE 0
DataDelay(delay) == IF delay > MidDelay THEN 0 ELSE MidDelay - delay

\* the data mask tested before the strobe mask
RECURSIVE DelayLoopDataFirst(_, _, _, _, _, _, _)
DelayLoopDataFirst(regs, awg, strb_mask, data_mask, strb_delay, data_delay,
                   i) ==
  IF i >= BusWidth THEN regs
  ELSE LET r1 == SetiDelayIndex(regs, awg, i)
           v == IF i \in data_mask THEN data_delay
                ELSE IF i \in strb_mask THEN strb_delay
                ELSE 0
       IN  DelayLoopDataFirst(SetiDelayValue(r1, awg, v), awg, strb_mask,
                              data_mask, strb_delay, data_delay, i + 1)

RECURSIVE DelayLoop(_, _, _, _, _, _, _)
DelayLoop(regs, awg, strb_mask, data_mask, strb_delay, data_delay, i) ==
  IF i >= BusWidth THEN regs
  ELSE LET r1 == SetiDelayIndex(regs, awg, i)
           v == IF i \in strb_mask THEN strb_delay
                ELSE IF i \in data_mask THEN data_delay
                ELSE 0
       IN  DelayLoop(SetiDelayValue(r1, awg, v), awg, strb_mask, data_mask,
                     strb_delay, data_delay, i + 1)

SetDioDelayDataFirst(regs, awg, strb_mask, data_mask, delay) ==
  LET d == ClampDelay(delay)
  IN  DelayLoopDataFirst([regs EXCEPT !.log = <<>>], awg, strb_mask,
                         data_mask, StrbDelay(d), DataDelay(d), 0)

SetDioDelay(regs, awg, strb_mask, data_mask, delay) ==
  LET d == ClampDelay(delay)
  IN  DelayLoop([regs EXCEPT !.log = <<>>], awg, strb_mask, data_mask,
                StrbDelay(d), DataDelay(d), 0)

(***************************************************************************)
(* State                                                                   *)
(***************************************************************************)
VARIABLES
  pc,                 \* position in calibrate_dio_protocol and its helpers
  enable,             \* device: awgs/n/enable
  clock_source,       \* device: system/clocks/referenceclock/source
  dio,                \* device: awgs/n/dio/{valid,strobe,mask} registers
  delay_regs,         \* device: awgs/n/dio/delay/{index,value}, and the
                      \* seti calls of the latest _set_dio_delay
  awgs_and_sequences, \* argument of calibrate_dio_protocol
  good_shots, bad_shots, enables,         \* _ensure_symmetric_strobe locals
  strobe_ok,          \* value returned by _ensure_symmetric_strobe
  chan,               \* position of the for loops over awgs_and_sequences
  all_valid_delays, max_valid_delay,      \* calibrate_dio_protocol locals
  delay, valid_delays, codewords, timing_violations, timeout_cnt,
                      \* _find_valid_delays locals
  result,             \* outcome of calibrate_dio_protocol
  call,               \* arguments of the latest _set_dio_delay call
  \* history, read by the properties only
  sym_run,            \* symmetric captures since the last asymmetric one
  resync_run,         \* resynchronizations since the last symmetric capture
  entry_enable,       \* enable at entry of _ensure_symmetric_strobe
  pre_resync_enable,  \* enable when the latest resynchronization began
  asymmetric_seen,    \* a capture of _ensure_symmetric_strobe was asymmetric
  wrote,              \* _ensure_symmetric_strobe has written to the device
  searched,           \* list positions whose delay search has started
  delay_calls,        \* number of _set_dio_delay calls made
  applied,            \* the calls of the final common-delay application
  captures,           \* captures taken so far for the delay under test
  violation_seen,     \* one of them recorded a timing violation
  captured_after_violation, \* one of them followed such a capture
  classified,         \* the classification the latest step made, if any
  given_up,           \* a delay of this search never decoded a codeword
  \* a helper function called on its own
  fn_args,            \* its arguments
  fn_ret,             \* its return value
  \* assure_ext_clock
  clock_status,       \* device: system/clocks/referenceclock/status
  source,             \* local: the clock source as last read
  status,             \* local: the clock status as last read
  entry_source,       \* history: the clock source at entry
  source_writes,      \* history: number of writes of the clock source
  \* configure_codeword_protocol
  cfg_codeword_protocol,  \* instrument parameter of that name
  written             \* history: the device writes made, in order

vars ==
  <<pc, enable, clock_source, dio, delay_regs, awgs_and_sequences,
    good_shots, bad_shots, enables, strobe_ok, chan, all_valid_delays,
    max_valid_delay, delay, valid_delays, codewords, timing_violations,
    timeout_cnt, result, call, sym_run, resync_run, entry_enable,
    pre_resync_enable, searched, delay_calls, applied, captures,
    violation_seen, captured_after_violation, classified, fn_args, fn_ret,
    clock_status, source, status, entry_source, source_writes, given_up,
    cfg_codeword_protocol, written, asymmetric_seen, wrote>>

deviceVars == <<enable, clock_source, dio, delay_regs>>
ensureVars == <<good_shots, bad_shots, enables, strobe_ok>>
findVars == <<delay, valid_delays, codewords, timing_violations, timeout_cnt>>
calVars == <<chan, all_valid_delays, max_valid_delay, result>>
histEnsure ==
  <<sym_run, resync_run, entry_enable, pre_resync_enable, asymmetric_seen,
    wrote>>
histCal == <<searched, delay_calls, applied>>
histFind ==
  <<captures, violation_seen, captured_after_violation, classified, given_up>>
fnVars == <<fn_args, fn_ret>>
clockVars == <<clock_status, source, status, entry_source, source_writes>>
\* what calibrate_dio_protocol never touches
configVars == <<cfg_codeword_protocol, written>>
otherVars == <<fnVars, clockVars, configVars>>

(***************************************************************************)
(* Device registers as configure_codeword_protocol leaves them with        *)
(* cfg_codeword_protocol = 'microwave' and cfg_num_codewords = 4           *)
(***************************************************************************)
ValidIndex == 31
ValidPolarity == 2
StrobeIndex == 30
StrobeSlope == 3
NumCodewords == 4
MicrowaveShift == 9

ConfiguredDio ==
  [a \in AWGS |->
     [valid_index |-> ValidIndex, valid_polarity |-> ValidPolarity,
      strobe_index |-> StrobeIndex, strobe_slope |-> StrobeSlope,
      mask_value |-> NumCodewords - 1,
      mask_shift |-> IF a \in {0, 1} THEN 0 ELSE MicrowaveShift]]

\* lines 660-665: the protocol of one AWG as _find_valid_delays reads it
Protocol(a) ==
  [vld_mask |-> {dio[a].valid_index},
   vld_polarity |-> dio[a].valid_polarity,
   strb_mask |-> {dio[a].strobe_index},
   strb_slope |-> dio[a].strobe_slope,
   cw_mask |-> Bits(dio[a].mask_value),
   cw_shift |-> dio[a].mask_shift]

\* (cw_mask << cw_shift) | vld_mask
DataMask(p) == Shl(p.cw_mask, p.cw_shift) \cup p.vld_mask

InitialDelayRegs ==
  [index |-> [a \in AWGS |-> 0],
   value |-> [a \in AWGS |-> [i \in BitPositions |-> 0]],
   log |-> <<>>]

(***************************************************************************)
(* What the bus can show.  A capture (getv) returns whatever the hardware  *)
(* sampled: each capture draws one trace from these sets.                  *)
(***************************************************************************)
StrbHigh == {StrobeIndex}
StrbLow == {}

\* raw/dios/0/data, line 605
SymTraces ==
  { <<StrbLow, StrbHigh, StrbHigh, StrbLow, StrbLow, StrbHigh, StrbHigh,
      StrbLow, StrbLow, StrbHigh>>,
    <<StrbLow, StrbHigh, StrbHigh, StrbHigh, StrbLow, StrbLow, StrbHigh,
      StrbHigh, StrbHigh, StrbLow>>,
    <<StrbLow, StrbLow, StrbLow>>,
    <<StrbHigh, StrbLow, StrbHigh, StrbHigh, StrbLow, StrbHigh>> }

\* one bus word: strobe line, valid line and codeword cw in the field of p
DioWord(strobe, valid, cw, p) ==
  (IF strobe = 1 THEN p.strb_mask ELSE {})
    \cup (IF valid = 1 THEN p.vld_mask ELSE {})
    \cup Shl(Bits(cw), p.cw_shift)

\* a trace that transfers the codewords cws, one per strobe toggle, with the
\* data stable at each toggle
RECURSIVE TransferTrace(_, _, _, _)
TransferTrace(cws, k, strobe, p) ==
  IF k > Len(cws) THEN <<>>
  ELSE <<DioWord(strobe, 1, cws[k], p), DioWord(1 - strobe, 1, cws[k], p)>>
         \o TransferTrace(cws, k + 1, 1 - strobe, p)

\* traces that transfer codewords of the expected sequence in its order
GoodTraces(p) ==
  { TransferTrace(<<1, 2, 3>>, 1, 0, p),
    TransferTrace(<<2, 3, 1, 2>>, 1, 0, p) }

\* no strobe toggle in the capture window: nothing decoded
MissedTrace(p) == <<DioWord(0, 1, 1, p), DioWord(0, 1, 1, p)>>

\* a codeword out of order; codeword bits that change together with the
\* strobe; valid dropping together with the strobe (nothing decoded)
BadTraces(p) ==
  { TransferTrace(<<2, 3, 2>>, 1, 0, p),
    <<DioWord(0, 1, 1, p), DioWord(1, 1, 2, p)>>,
    <<DioWord(0, 1, 1, p), DioWord(1, 0, 1, p)>> }

\* an expected sequence in which codeword 1 occurs twice
RepeatSequence == <<1, 2, 1, 3>>

\* traces that transfer codewords of RepeatSequence in its order, from
\* offsets 0 and 2, and one that transfers ExpectedSequence from offset 1
RepeatTraces(p) ==
  { TransferTrace(<<1, 2, 1, 3>>, 1, 0, p),
    TransferTrace(<<1, 3, 1, 2>>, 1, 0, p),
    TransferTrace(<<2, 3, 1, 2>>, 1, 0, p) }

\* the AWG that is also sent RepeatSequence
RepeatAwg == NumAwgs - 1

\* The skew of an AWG's bus decides at which delay settings the data is
\* stable when the strobe toggles.  AWG 0 and AWG 2 have a known skew; the
\* skew of the other AWGs is open: any trace at any setting.
SkewKnown == {0, 2}
StableDelays(a) == IF a = 0 THEN 1 .. 4 ELSE 2 .. 5

\* awgs/n/dio/data, lines 682 and 691: what a capture on AWG a can return
\* while delay setting d is programmed
DioTraces(a, d, p) ==
  IF a = RepeatAwg
  THEN RepeatTraces(p) \cup BadTraces(p) \cup {MissedTrace(p)}
  ELSE IF a \notin SkewKnown
  THEN GoodTraces(p) \cup BadTraces(p) \cup {MissedTrace(p)}
  ELSE IF d \in StableDelays(a)
  THEN GoodTraces(p) \cup {MissedTrace(p)}
  ELSE BadTraces(p) \cup {MissedTrace(p)}

ExpectedSequence == <<1, 2, 3>>

\* the argument of calibrate_dio_protocol: a list of (awg, sequence)
ChannelLists ==
  { <<<<1, ExpectedSequence>>>>,
    <<<<0, ExpectedSequence>>, <<2, ExpectedSequence>>>> }

EnableValues == {0, 1}

(***************************************************************************)
(* _ensure_symmetric_strobe                                                *)
(***************************************************************************)
RECURSIVE SortedSeq(_)
SortedSeq(S) ==
  IF S = {} THEN <<>>
  ELSE LET m == CHOOSE x \in S : \A y \in S : x <= y
       IN  <<m>> \o SortedSeq(S \ {m})

\* lines 596-600: strb_bits = list(set(strobe index of each AWG))
StrbBitsOf(d) == SortedSeq({d[a].strobe_index : a \in AWGS})

\* the ceilings tested with >= for >
GoodShotsDoneAtLimit(g) == g >= ShotLimit
BadShotsDoneAtLimit(b) == b >= ShotLimit

\* line 611 and line 644: the two exits of the loop
GoodShotsDone(g) == g > ShotLimit
BadShotsDone(b) == b > ShotLimit

\* more good shots asked for than the loop collects
EnsureResultTooStrict(g, b) == (g > ShotLimit + 1) /\ (b = 0)

\* the sense of the returned test inverted
EnsureResultInverted(g, b) == ~((g > 0) /\ (b = 0))

\* line 647
EnsureResult(g, b) == (g > 0) /\ (b = 0)

\* every AWG left disabled instead of restored
RestoreValueCleared(saved, a) == 0

\* every AWG enabled instead of restored
RestoreValueEnabled(saved, a) == 1

\* line 640: the value written back to awgs/n/enable
RestoreValue(saved, a) == saved[a]

\* lines 605-612: one capture, and the bookkeeping of a symmetric one
EnsureCapture ==
  /\ pc = "ensure_capture"
  /\ \E data \in SymTraces :
       IF IsDioStrbSymmetric(data, StrbBitsOf(dio))
       THEN /\ bad_shots' = 0
            /\ good_shots' = good_shots + 1
            /\ pc' = IF GoodShotsDone(good_shots + 1)
                     THEN "ensure_return" ELSE "ensure_capture"
            /\ sym_run' = sym_run + 1
            /\ resync_run' = 0
            /\ UNCHANGED asymmetric_seen
       ELSE /\ pc' = "resync_disable"
            /\ sym_run' = 0
            /\ asymmetric_seen' = TRUE
            /\ UNCHANGED <<good_shots, bad_shots, resync_run>>
  /\ UNCHANGED <<deviceVars, awgs_and_sequences, otherVars, histFind, enables, strobe_ok,
                 calVars, findVars, call, entry_enable, pre_resync_enable,
                 wrote, histCal>>

\* lines 619-623: save the enable flags, then clear them
DisableAWGs ==
  /\ pc = "resync_disable"
  /\ enables' = [a \in AWGS |-> enable[a]]
  /\ enable' = [a \in AWGS |-> 0]
  /\ pre_resync_enable' = enable
  /\ wrote' = TRUE
  /\ pc' = "resync_internal"
  /\ UNCHANGED <<clock_source, dio, delay_regs, awgs_and_sequences, otherVars, histFind,
                 good_shots, bad_shots, strobe_ok, calVars, findVars, call,
                 sym_run, resync_run, entry_enable, asymmetric_seen,
                 histCal>>

\* line 628
SwitchInternal ==
  /\ pc = "resync_internal"
  /\ clock_source' = 0
  /\ wrote' = TRUE
  /\ pc' = "resync_external"
  /\ UNCHANGED <<enable, dio, delay_regs, awgs_and_sequences, otherVars, histFind, ensureVars,
                 calVars, findVars, call, sym_run, resync_run, entry_enable,
                 pre_resync_enable, asymmetric_seen, histCal>>

\* line 632
SwitchExternal ==
  /\ pc = "resync_external"
  /\ clock_source' = 1
  /\ wrote' = TRUE
  /\ pc' = "resync_restore"
  /\ UNCHANGED <<enable, dio, delay_regs, awgs_and_sequences, otherVars, histFind, ensureVars,
                 calVars, findVars, call, sym_run, resync_run, entry_enable,
                 pre_resync_enable, asymmetric_seen, histCal>>

\* lines 636-645: restore the enable flags, count the bad shot
RestoreAWGs ==
  /\ pc = "resync_restore"
  /\ enable' = [a \in AWGS |-> RestoreValue(enables, a)]
  /\ good_shots' = 0
  /\ bad_shots' = bad_shots + 1
  /\ resync_run' = resync_run + 1
  /\ wrote' = TRUE
  /\ pc' = IF BadShotsDone(bad_shots + 1)
           THEN "ensure_return" ELSE "ensure_capture"
  /\ UNCHANGED <<clock_source, dio, delay_regs, awgs_and_sequences, otherVars, histFind, enables,
                 strobe_ok, calVars, findVars, call, sym_run, entry_enable,
                 pre_resync_enable, asymmetric_seen, histCal>>

\* line 647, and lines 439-447 of the caller
EnsureReturn ==
  /\ pc = "ensure_return"
  /\ IF EnsureResult(good_shots, bad_shots)
     THEN /\ strobe_ok' = "True"
          /\ all_valid_delays' = <<>>
          /\ chan' = 1
          /\ pc' = "find_start"
          /\ UNCHANGED result
     ELSE /\ strobe_ok' = "False"
          /\ result' = "False"
          /\ pc' = "done"
          /\ UNCHANGED <<all_valid_delays, chan>>
  /\ UNCHANGED <<deviceVars, awgs_and_sequences, otherVars, histFind, good_shots, bad_shots,
                 enables, max_valid_delay, findVars, call, histEnsure,
                 histCal>>

(***************************************************************************)
(* _find_valid_delays                                                      *)
(***************************************************************************)
\* expected_sequence.index(codeword), 0-based
FirstIndex(seq, x) ==
  (CHOOSE i \in 1 .. Len(seq) :
     seq[i] = x /\ \A j \in 1 .. (i - 1) : seq[j] # x) - 1

\* lines 725-736: codewords n, n+1, ... follow the expected sequence from index
RECURSIVE FollowsFrom(_, _, _, _)
FollowsFrom(cws, n, index, expected) ==
  IF n >= Len(cws) THEN TRUE
  ELSE LET next == (index + 1) % Len(expected)
       IN  IF cws[n + 1] # expected[next + 1] THEN FALSE
           ELSE FollowsFrom(cws, n + 1, next, expected)

\* lines 710-736: valid_sequence
ValidSequence(cws, expected) ==
  IF Len(cws) = 0 THEN TRUE
  ELSE IF \A i \in 1 .. Len(expected) : expected[i] # cws[1] THEN FALSE
  ELSE FollowsFrom(cws, 1, FirstIndex(expected, cws[1]), expected)

\* the codeword mask left out of the test
NoCodewordsAnyMask(p, cws) == Len(cws) = 0

\* line 686 and line 697: nothing decoded although codeword bits are in use
NoCodewords(p, cws) == p.cw_mask # {} /\ Len(cws) = 0

\* nothing decoded taken for a match of the expected sequence
DelayIsValidWhenEmpty(p, cws, tvs, expected) ==
  IF Len(tvs) # 0 THEN FALSE ELSE ValidSequence(cws, expected)

\* lines 696-740: whether the delay under test is appended to valid_delays
DelayIsValid(p, cws, tvs, expected) ==
  IF NoCodewords(p, cws) THEN FALSE
  ELSE IF Len(tvs) # 0 THEN FALSE
  ELSE ValidSequence(cws, expected)

\* the returned set tested for existence, not for emptiness
ValidDelaysFoundAlways(S) == TRUE

\* line 450: truth value of the returned set
ValidDelaysFound(S) == S # {}

Awg(k) == awgs_and_sequences[k][1]
Sequence(k) == awgs_and_sequences[k][2]

\* history: no delay has been classified since the search began
NotClassified ==
  [delay |-> 0 - 1, codewords |-> <<>>, timing_violations |-> <<>>,
   captures |-> 0, violation_seen |-> FALSE,
   captured_after_violation |-> FALSE]

\* lines 448-449 and 658-675: enter _find_valid_delays for list position chan
FindStart ==
  /\ pc = "find_start"
  /\ valid_delays' = <<>>
  /\ delay' = 0
  /\ searched' = Append(searched, chan)
  /\ classified' = NotClassified
  /\ given_up' = FALSE
  /\ pc' = "test_delay"
  /\ UNCHANGED <<deviceVars, awgs_and_sequences, otherVars, ensureVars, calVars,
                 codewords, timing_violations, timeout_cnt, call,
                 histEnsure, delay_calls, applied, captures, violation_seen,
                 captured_after_violation>>

\* lines 696-740 and the step of the for loop: classify the delay under
\* test from the analysis (cws, tvs) the retry loop ended with.  The
\* analysis locals are overwritten before they are read again (lines
\* 683-685), so they are reset here.
\* the sweep ended one setting early
SweepDoneEarly(d) == d >= MaxDelay

\* line 676: range(0, 7) is exhausted
SweepDone(d) == d > MaxDelay

FinishDelay(cws, tvs) ==
  /\ valid_delays' =
       IF DelayIsValid(Protocol(Awg(chan)), cws, tvs, Sequence(chan))
       THEN Append(valid_delays, delay) ELSE valid_delays
  /\ delay' = delay + 1
  /\ pc' = IF SweepDone(delay + 1) THEN "find_return" ELSE "test_delay"
  /\ codewords' = <<>>
  /\ timing_violations' = <<>>
  /\ timeout_cnt' = 0

\* the retry loop is entered or continued with the analysis (cws, tvs)
KeepTrying(cws, tvs, cnt) ==
  /\ codewords' = cws
  /\ timing_violations' = tvs
  /\ timeout_cnt' = cnt
  /\ pc' = "retry"
  /\ UNCHANGED <<valid_delays, delay>>

\* history: the retry loop goes on after caps captures
NoteTrying(caps, seen, after) ==
  /\ captures' = caps
  /\ violation_seen' = seen
  /\ captured_after_violation' = after
  /\ classified' = NotClassified
  /\ UNCHANGED given_up

\* history: the delay under test is classified from (cws, tvs)
NoteFinish(cws, tvs, caps, seen, after) ==
  /\ classified' =
       [delay |-> delay, codewords |-> cws, timing_violations |-> tvs,
        captures |-> caps, violation_seen |-> seen,
        captured_after_violation |-> after]
  /\ given_up' = (given_up \/ NoCodewords(Protocol(Awg(chan)), cws))
  /\ captures' = 0
  /\ violation_seen' = FALSE
  /\ captured_after_violation' = FALSE

\* lines 676-685: program the delay under test, first capture and analysis
TestDelay ==
  /\ pc = "test_delay"
  /\ LET p == Protocol(Awg(chan))
         args == [awg |-> Awg(chan), strb_mask |-> p.strb_mask,
                  data_mask |-> DataMask(p), delay |-> delay]
     IN  /\ delay_regs' = SetDioDelay(delay_regs, args.awg, args.strb_mask,
                                      args.data_mask, args.delay)
         /\ call' = args
         /\ delay_calls' = delay_calls + 1
         /\ \E data \in DioTraces(Awg(chan), delay, p) :
              LET a == AnalyzeDioData(data, p)
                  seen == Len(a.timing_violations) # 0
              IN  IF NoCodewords(p, a.codewords)
                  THEN /\ KeepTrying(a.codewords, a.timing_violations, 0)
                       /\ NoteTrying(1, seen, FALSE)
                  ELSE /\ FinishDelay(a.codewords, a.timing_violations)
                       /\ NoteFinish(a.codewords, a.timing_violations, 1,
                                     seen, FALSE)
  /\ UNCHANGED <<enable, clock_source, dio, awgs_and_sequences, otherVars, ensureVars,
                 calVars, histEnsure, searched, applied>>

\* the retry ceiling tested one count late
RetryLimitReachedLate(cnt) == cnt > TimeoutLimit + 1

\* line 687: the test that breaks the retry loop
RetryLimitReached(cnt) == cnt > TimeoutLimit

\* lines 686-694: one more capture and analysis
RetryCapture ==
  /\ pc = "retry"
  /\ ~RetryLimitReached(timeout_cnt)
  /\ LET p == Protocol(Awg(chan))
     IN  \E data \in DioTraces(Awg(chan), delay, p) :
           LET a == AnalyzeDioData(data, p)
               seen == violation_seen \/ Len(a.timing_violations) # 0
               after == captured_after_violation \/ violation_seen
           IN  IF NoCodewords(p, a.codewords)
               THEN /\ KeepTrying(a.codewords, a.timing_violations,
                                  timeout_cnt + 1)
                    /\ NoteTrying(captures + 1, seen, after)
               ELSE /\ FinishDelay(a.codewords, a.timing_violations)
                    /\ NoteFinish(a.codewords, a.timing_violations,
                                  captures + 1, seen, after)
  /\ UNCHANGED <<deviceVars, awgs_and_sequences, otherVars, ensureVars, calVars, call,
                 histEnsure, histCal>>

\* lines 687-688: the retry loop gives up
RetryGiveUp ==
  /\ pc = "retry"
  /\ RetryLimitReached(timeout_cnt)
  /\ FinishDelay(codewords, timing_violations)
  /\ NoteFinish(codewords, timing_violations, captures, violation_seen,
                captured_after_violation)
  /\ UNCHANGED <<deviceVars, awgs_and_sequences, otherVars, ensureVars, calVars, call,
                 histEnsure, histCal>>

\* the loop over the list stopped after its first entry
ListDoneAfterFirst(k) == k > 1

\* lines 448 and 469: the for loop over awgs_and_sequences is exhausted
ListDone(k) == k > Len(awgs_and_sequences)

\* line 744 and lines 450-456 of the caller
FindReturn ==
  /\ pc = "find_return"
  /\ LET found == {valid_delays[i] : i \in 1 .. Len(valid_delays)}
     IN  IF ValidDelaysFound(found)
         THEN /\ all_valid_delays' = Append(all_valid_delays, found)
              /\ chan' = chan + 1
              /\ pc' = IF ListDone(chan + 1)
                       THEN "combine" ELSE "find_start"
              /\ UNCHANGED result
         ELSE /\ result' = "False"
              /\ pc' = "done"
              /\ UNCHANGED <<all_valid_delays, chan>>
  /\ classified' = NotClassified
  /\ given_up' = FALSE
  /\ UNCHANGED <<deviceVars, awgs_and_sequences, otherVars, ensureVars,
                 max_valid_delay, findVars, call, histEnsure, histCal,
                 captures, violation_seen, captured_after_violation>>

(***************************************************************************)
(* calibrate_dio_protocol, after the searches                              *)
(***************************************************************************)
\* lines 459-460: max() of an empty set raises ValueError
Combine ==
  /\ pc = "combine"
  /\ LET combined_valid_delays == Intersection(all_valid_delays, 1)
     IN  IF combined_valid_delays = {}
         THEN /\ result' = "ValueError"
              /\ pc' = "done"
              /\ UNCHANGED <<max_valid_delay, chan>>
         ELSE /\ max_valid_delay' = Max(combined_valid_delays)
              /\ chan' = 1
              /\ pc' = "apply"
              /\ UNCHANGED result
  /\ UNCHANGED <<deviceVars, awgs_and_sequences, otherVars, histFind, ensureVars,
                 all_valid_delays, findVars, call, histEnsure, histCal>>

\* lines 469-482: program the common delay on the AWG at list position chan
ApplyDelay ==
  /\ pc = "apply"
  /\ LET p == Protocol(Awg(chan))
         args == [awg |-> Awg(chan), strb_mask |-> p.strb_mask,
                  data_mask |-> DataMask(p), delay |-> max_valid_delay]
     IN  /\ delay_regs' = SetDioDelay(delay_regs, args.awg, args.strb_mask,
                                      args.data_mask, args.delay)
         /\ call' = args
         /\ applied' = Append(applied, args)
         /\ delay_calls' = delay_calls + 1
  /\ chan' = chan + 1
  /\ IF ListDone(chan + 1)
     THEN pc' = "done" /\ result' = "True"
     ELSE pc' = "apply" /\ UNCHANGED result
  /\ UNCHANGED <<enable, clock_source, dio, awgs_and_sequences, otherVars, histFind, ensureVars,
                 all_valid_delays, max_valid_delay, findVars, histEnsure,
                 searched>>

(***************************************************************************)
(* Specifications                                                          *)
(***************************************************************************)
NoArgs == [fn |-> "none"]

NoCall == [awg |-> 0 - 1, strb_mask |-> {}, data_mask |-> {}, delay |-> 0]

InitLocals ==
  /\ good_shots = 0
  /\ bad_shots = 0
  /\ enables = [a \in AWGS |-> 0]
  /\ strobe_ok = "none"
  /\ chan = 0
  /\ all_valid_delays = <<>>
  /\ max_valid_delay = 0 - 1
  /\ delay = 0
  /\ valid_delays = <<>>
  /\ codewords = <<>>
  /\ timing_violations = <<>>
  /\ timeout_cnt = 0
  /\ result = "none"
  /\ sym_run = 0
  /\ resync_run = 0
  /\ pre_resync_enable = enable
  /\ entry_enable = enable
  /\ asymmetric_seen = FALSE
  /\ wrote = FALSE
  /\ searched = <<>>
  /\ delay_calls = 0
  /\ applied = <<>>
  /\ captures = 0
  /\ violation_seen = FALSE
  /\ captured_after_violation = FALSE
  /\ classified = NotClassified
  /\ given_up = FALSE

\* no helper function is called on its own, nothing is being configured
InitNoFn ==
  /\ fn_args = NoArgs
  /\ fn_ret = "none"
  /\ cfg_codeword_protocol = "microwave"
  /\ written = <<>>

\* assure_ext_clock is not running; the clock is synced
InitClockIdle ==
  /\ clock_status = 0
  /\ source = 0 - 1
  /\ status = 0 - 1
  /\ entry_source = clock_source
  /\ source_writes = 0

\* calibrate_dio_protocol called on a configured instrument (line 429 has
\* enabled every AWG, assure_ext_clock has selected the external clock)
Init ==
  /\ pc = "ensure_capture"
  /\ enable = [a \in AWGS |-> 1]
  /\ clock_source = 1
  /\ dio = ConfiguredDio
  /\ delay_regs = InitialDelayRegs
  /\ awgs_and_sequences \in ChannelLists
  /\ call = NoCall
  /\ InitLocals
  /\ InitNoFn
  /\ InitClockIdle

NextEnsure ==
  \/ EnsureCapture
  \/ DisableAWGs
  \/ SwitchInternal
  \/ SwitchExternal
  \/ RestoreAWGs
  \/ EnsureReturn

Next ==
  \/ NextEnsure
  \/ FindStart
  \/ TestDelay
  \/ RetryCapture
  \/ RetryGiveUp
  \/ FindReturn
  \/ Combine
  \/ ApplyDelay

Spec == Init /\ [][Next]_vars

\* _ensure_symmetric_strobe alone, entered with any enable flags
InitEnsure ==
  /\ pc = "ensure_capture"
  /\ enable \in [AWGS -> EnableValues]
  /\ clock_source = 1
  /\ dio = ConfiguredDio
  /\ delay_regs = InitialDelayRegs
  /\ awgs_and_sequences = <<>>
  /\ call = NoCall
  /\ InitLocals
  /\ InitNoFn
  /\ InitClockIdle

SpecEnsure == InitEnsure /\ [][NextEnsure]_vars

\* the driver is one thread that keeps running: a step that can be taken
\* is taken
FairEnsure == SpecEnsure /\ WF_vars(NextEnsure)

\* _find_valid_delays alone, called once for RepeatAwg with either sequence
FindLists ==
  { <<<<RepeatAwg, ExpectedSequence>>>>, <<<<RepeatAwg, RepeatSequence>>>> }

\* the registers with cfg_num_codewords = 1: codeword mask 0 on RepeatAwg
MaskZeroDio == [ConfiguredDio EXCEPT ![RepeatAwg].mask_value = 0]

InitFind ==
  /\ pc = "find_start"
  /\ enable = [a \in AWGS |-> 1]
  /\ clock_source = 1
  /\ \/ dio = ConfiguredDio /\ awgs_and_sequences \in FindLists
     \/ dio = MaskZeroDio
          /\ awgs_and_sequences = <<<<RepeatAwg, ExpectedSequence>>>>
  /\ delay_regs = InitialDelayRegs
  /\ call = NoCall
  /\ good_shots = ShotLimit + 1
  /\ bad_shots = 0
  /\ enables = [a \in AWGS |-> 0]
  /\ strobe_ok = "True"
  /\ chan = 1
  /\ all_valid_delays = <<>>
  /\ max_valid_delay = 0 - 1
  /\ delay = 0
  /\ valid_delays = <<>>
  /\ codewords = <<>>
  /\ timing_violations = <<>>
  /\ timeout_cnt = 0
  /\ result = "none"
  /\ sym_run = 0
  /\ resync_run = 0
  /\ pre_resync_enable = enable
  /\ entry_enable = enable
  /\ asymmetric_seen = FALSE
  /\ wrote = FALSE
  /\ searched = <<>>
  /\ delay_calls = 0
  /\ applied = <<>>
  /\ captures = 0
  /\ violation_seen = FALSE
  /\ captured_after_violation = FALSE
  /\ classified = NotClassified
  /\ given_up = FALSE
  /\ InitNoFn
  /\ InitClockIdle

NextFind ==
  \/ FindStart
  \/ TestDelay
  \/ RetryCapture
  \/ RetryGiveUp
  \/ FindReturn

SpecFind == InitFind /\ [][NextFind]_vars

\* _set_dio_delay alone, called with any requested delay
DelayRequests == (0 - MaxOver) .. (MaxDelay + MaxOver)

\* the masks the driver passes for AWG a, and a pair that shares bit 0
MaskPairs(a) ==
  { <<Protocol(a).strb_mask, DataMask(Protocol(a))>>,
    <<Protocol(a).strb_mask \cup {0}, DataMask(Protocol(a))>> }

InitSetDelay ==
  /\ pc = "set_dio_delay"
  /\ enable = [a \in AWGS |-> 1]
  /\ clock_source = 1
  /\ dio = ConfiguredDio
  /\ delay_regs = InitialDelayRegs
  /\ awgs_and_sequences = <<>>
  /\ \E a \in AWGS, d \in DelayRequests :
       \E m \in MaskPairs(a) :
         call = [awg |-> a, strb_mask |-> m[1], data_mask |-> m[2],
                 delay |-> d]
  /\ InitLocals
  /\ InitNoFn
  /\ InitClockIdle

CallSetDioDelay ==
  /\ pc = "set_dio_delay"
  /\ delay_regs' = SetDioDelay(delay_regs, call.awg, call.strb_mask,
                               call.data_mask, call.delay)
  /\ delay_calls' = delay_calls + 1
  /\ pc' = "set_dio_delay_done"
  /\ UNCHANGED <<enable, clock_source, dio, awgs_and_sequences, otherVars, histFind, ensureVars,
                 calVars, findVars, call, histEnsure, searched, applied>>

NextSetDelay == CallSetDioDelay

SpecSetDelay == InitSetDelay /\ [][NextSetDelay]_vars

(***************************************************************************)
(* Properties                                                              *)
(***************************************************************************)
InResync ==
  pc \in {"resync_disable", "resync_internal", "resync_external",
          "resync_restore"}

\* C1 (as claimed): _ensure_symmetric_strobe always returns, whatever the
\* captures show.  Checked under FairEnsure.
EnsureTerminates == <>(strobe_ok # "none")

\* C2 (as claimed): a run that returns true took exactly 5 symmetric
\* captures since the last asymmetric one.
TrueAfterFiveGoodShots == strobe_ok = "True" => sym_run = ShotLimit

\* C2 (amended): a run that returns true took exactly 6 symmetric captures
\* since the last asymmetric one (or the start), and no capture is taken
\* once 6 consecutive symmetric captures have been seen.
TrueAfterSixGoodShots ==
  /\ strobe_ok = "True" => sym_run = ShotLimit + 1
  /\ pc = "ensure_capture" => sym_run <= ShotLimit

TrueAfterSixGoodShotsWitness ==
  /\ strobe_ok = "True"
  /\ sym_run = ShotLimit + 1
  \* a resynchronization was made before: the flags were saved
  /\ enables = enable
  /\ enable[0] = 1

\* C3 (as claimed): a run that returns false performed exactly 5
\* resynchronizations since the last symmetric capture.
FalseAfterFiveResyncs == strobe_ok = "False" => resync_run = ShotLimit

\* C3 (amended): a run that returns false performed exactly 6
\* resynchronizations since the last symmetric capture (or the start), and
\* no capture is taken once 6 consecutive resynchronizations were made.
FalseAfterSixResyncs ==
  /\ strobe_ok = "False" => resync_run = ShotLimit + 1 /\ sym_run = 0
  /\ pc = "ensure_capture" => resync_run <= ShotLimit

FalseAfterSixResyncsWitness ==
  strobe_ok = "False" /\ resync_run = ShotLimit + 1

\* the delays that every searched channel found valid
CommonDelays ==
  {d \in 0 .. MaxDelay :
     \A k \in 1 .. Len(all_valid_delays) : d \in all_valid_delays[k]}

AllChannelsSearched ==
  /\ Len(awgs_and_sequences) > 0
  /\ Len(all_valid_delays) = Len(awgs_and_sequences)

\* C4 (as claimed): every run of calibrate_dio_protocol that ends, ends by
\* returning true or false.
EndsWithBoolean == pc = "done" => result \in {"True", "False"}

\* C5: when every channel has a non-empty Valid-Delay Set and the sets have
\* no common element, the run ends in the error of max() on an empty set:
\* no boolean is returned and the final application is made on no channel.
EmptyIntersectionRaises ==
  (AllChannelsSearched /\ CommonDelays = {} /\ pc # "combine")
    => /\ pc = "done"
       /\ result = "ValueError"
       /\ applied = <<>>
       /\ delay_calls = (MaxDelay + 1) * Len(awgs_and_sequences)

EmptyIntersectionRaisesWitness ==
  /\ AllChannelsSearched
  /\ \A k \in 1 .. Len(all_valid_delays) : all_valid_delays[k] # {}
  /\ CommonDelays = {}
  /\ result = "ValueError"

\* the delay line _set_dio_delay programs for setting d in 0..MaxDelay
LineFor(strb_mask, data_mask, d) ==
  [i \in BitPositions |->
     IF i \in strb_mask THEN (IF d > MidDelay THEN d - MidDelay ELSE 0)
     ELSE IF i \in data_mask THEN (IF d < MidDelay THEN MidDelay - d ELSE 0)
     ELSE 0]

\* C6: whenever calibrate_dio_protocol returns true, the final step applied
\* one delay d, the maximum of the intersection of all Valid-Delay Sets, to
\* every channel of the list with that channel's strobe and data mask.
TrueAppliesMaxCommonDelay ==
  result = "True" =>
    /\ AllChannelsSearched
    /\ Len(applied) = Len(awgs_and_sequences)
    /\ LET d == applied[1].delay
       IN  /\ d \in CommonDelays
           /\ \A e \in CommonDelays : e <= d
           /\ \A k \in 1 .. Len(awgs_and_sequences) :
                LET a == Awg(k)
                IN  /\ applied[k] =
                         [awg |-> a, strb_mask |-> {dio[a].strobe_index},
                          data_mask |-> Shl(Bits(dio[a].mask_value),
                                            dio[a].mask_shift)
                                          \cup {dio[a].valid_index},
                          delay |-> d]
                    /\ delay_regs.value[a] =
                         LineFor(applied[k].strb_mask, applied[k].data_mask,
                                 d)

TrueAppliesMaxCommonDelayWitness ==
  /\ result = "True"
  /\ all_valid_delays = <<1 .. 4, 2 .. 5>>
  /\ Len(applied) = 2
  /\ applied[1].delay = 4
  /\ applied[2].delay = 4

\* the symmetry check gave up: it returned after its last resynchronization
StrobeCheckFailed ==
  \/ strobe_ok = "False"
  \/ (strobe_ok # "none" /\ resync_run > ShotLimit)

\* C7: if the symmetry check fails, calibrate_dio_protocol returns false,
\* no channel is searched and no DIO delay register is written.
StrobeFailureAborts ==
  StrobeCheckFailed =>
    /\ pc = "done"
    /\ result = "False"
    /\ searched = <<>>
    /\ delay_calls = 0
    /\ delay_regs = InitialDelayRegs

StrobeFailureAbortsWitness ==
  StrobeCheckFailed /\ result = "False" /\ Len(awgs_and_sequences) = 2

\* a delay search has returned an empty Valid-Delay Set
EmptySearchReturned ==
  /\ strobe_ok = "True"
  /\ pc \in {"find_start", "combine", "apply", "done"}
  /\ Len(searched) >= 1
  /\ valid_delays = <<>>

\* C8: if the delay search of a channel yields an empty Valid-Delay Set,
\* calibrate_dio_protocol returns false at once: no later channel is
\* searched and the final application is made on no channel.
EmptySearchAborts ==
  EmptySearchReturned =>
    /\ pc = "done"
    /\ result = "False"
    /\ searched = [k \in 1 .. chan |-> k]
    /\ Len(all_valid_delays) = chan - 1
    /\ applied = <<>>
    /\ delay_calls = (MaxDelay + 1) * chan

EmptySearchAbortsWitness ==
  /\ EmptySearchReturned
  /\ result = "False"
  /\ chan = 1
  /\ Len(awgs_and_sequences) = 2

\* C9: outside a resynchronization every AWG enable flag holds the value it
\* had when the latest resynchronization began, and the value it had at
\* entry: each resynchronization restores the flags, and so does the whole
\* of _ensure_symmetric_strobe.
EnableFlagsRestored ==
  ~InResync => enable = pre_resync_enable /\ enable = entry_enable

EnableFlagsRestoredWitness ==
  /\ strobe_ok # "none"
  /\ resync_run > 0
  /\ enable[0] = 1
  /\ enable[1] = 0

\* the requested delay clamped into 0..MaxDelay
Clamped(d) == IF d < 0 THEN 0 ELSE IF d > MaxDelay THEN MaxDelay ELSE d

\* C10 (as claimed): _set_dio_delay programs, for a request below 0, the
\* values of delay 0 and, for a request above 6, the values of delay 6.
OutOfRangeDelayClamped ==
  pc = "set_dio_delay_done" =>
    delay_regs.value[call.awg] =
      LineFor(call.strb_mask, call.data_mask, Clamped(call.delay))

(***************************************************************************)
(* The module functions called on their own.  fn_args holds the arguments  *)
(* of the call (and how the trace was built), fn_ret the returned value.   *)
(***************************************************************************)
\* the instrument and the calibration are idle while a function is called
InitParked ==
  /\ enable = [a \in AWGS |-> 1]
  /\ clock_source = 1
  /\ dio = ConfiguredDio
  /\ delay_regs = InitialDelayRegs
  /\ awgs_and_sequences = <<>>
  /\ call = NoCall
  /\ InitLocals
  /\ InitClockIdle
  /\ cfg_codeword_protocol = "microwave"
  /\ written = <<>>

\* the step every function call takes: fn_ret becomes the returned value
Return(fn, value) ==
  /\ pc = fn
  /\ pc' = "returned"
  /\ fn_ret' = value
  /\ UNCHANGED <<deviceVars, awgs_and_sequences, clockVars, configVars,
                 histFind, ensureVars, calVars, findVars, call, histEnsure,
                 histCal, fn_args>>

\* bounds on the strobe traces: run length and number of complete runs
MaxRunLen == 3
MaxRuns == 3

\* a bus word with the strobe bit at the given level (valid stays high)
StrobeWord(level) ==
  IF level = 1 THEN {StrobeIndex, ValidIndex} ELSE {ValidIndex}

\* the trace whose strobe bit holds level for lens[i] samples, toggles, holds
\* for lens[i + 1] samples, and so on
RECURSIVE RunTrace(_, _, _)
RunTrace(lens, i, level) ==
  IF i > Len(lens) THEN <<>>
  ELSE [n \in 1 .. lens[i] |-> StrobeWord(level)]
         \o RunTrace(lens, i + 1, 1 - level)

\* a partial run of s samples, k complete runs of r samples of which run j
\* has m samples instead (j = 0: none), a partial run of e samples
RunLengths(s, r, k, j, m, e) ==
  <<s>> \o [i \in 1 .. k |-> IF i = j THEN m ELSE r] \o <<e>>

\* the lists of strobe bits checked: the strobe bit alone, or with a bit
\* that never toggles
BitLists == { <<StrobeIndex>>, <<StrobeIndex, ValidIndex>> }

\* run length r with partial runs of s and e samples, neither longer than r
PartialRuns(least) ==
  { x \in (1 .. MaxRunLen) \X (least .. MaxRunLen) \X (least .. MaxRunLen) :
      x[2] <= x[1] /\ x[3] <= x[1] }

\* traces toggling with equal run lengths
EqualRunCalls ==
  { [fn |-> "_is_dio_strb_symmetric",
     data |-> RunTrace(RunLengths(c[2], c[1], k, 0, c[1], c[3]), 1, l),
     bits |-> b, run |-> c[1], runs |-> k, changed |-> 0, to |-> c[1]]
    : c \in PartialRuns(0), k \in 1 .. MaxRuns, l \in {0, 1},
      b \in BitLists }

\* the same traces with complete run j changed to another length m; both
\* partial runs are present, so each of the k runs has an edge on both sides
ChangedRunCalls ==
  { [fn |-> "_is_dio_strb_symmetric",
     data |-> RunTrace(RunLengths(c[2], c[1], k, j[1], j[2], c[3]), 1, l),
     bits |-> b, run |-> c[1], runs |-> k, changed |-> j[1], to |-> j[2]]
    : c \in PartialRuns(1), k \in 2 .. MaxRuns,
      j \in (1 .. MaxRuns) \X (1 .. MaxRunLen), l \in {0, 1},
      b \in BitLists }

InitSym ==
  /\ pc = "_is_dio_strb_symmetric"
  /\ fn_args \in { a \in EqualRunCalls \cup ChangedRunCalls :
                     a.changed <= a.runs /\ (a.changed = 0 <=> a.to = a.run) }
  /\ fn_ret = "none"
  /\ InitParked

CallIsDioStrbSymmetric ==
  Return("_is_dio_strb_symmetric",
         IsDioStrbSymmetric(fn_args.data, fn_args.bits))

NextSym == CallIsDioStrbSymmetric

SpecSym == InitSym /\ [][NextSym]_vars

\* bound on the length of the traces with two toggling bits
MaxLevels == 5

\* the two bus lines checked together: the strobe bit and codeword bit 0
CheckedBits == {StrobeIndex, 0}

\* every trace of at most MaxLevels samples on these two lines
LevelTraces ==
  UNION { [1 .. n -> SUBSET CheckedBits] : n \in 0 .. MaxLevels }

\* every list of distinct checked bits, the empty list included
CheckedLists ==
  { <<>>, <<StrobeIndex>>, <<0>>, <<StrobeIndex, 0>>, <<0, StrobeIndex>> }

InitLevels ==
  /\ pc = "_is_dio_strb_symmetric"
  /\ fn_args \in { [fn |-> "_is_dio_strb_symmetric", data |-> d, bits |-> b]
                    : d \in LevelTraces, b \in CheckedLists }
  /\ fn_ret = "none"
  /\ InitParked

SpecLevels == InitLevels /\ [][NextSym]_vars

\* bound on the length of the traces handed to _analyze_dio_data
MaxTraceLen == 2

\* the bus lines that carry a signal: two codeword lines, strobe and valid
WordBits == {0, 1, StrobeIndex, ValidIndex}

\* every trace of at most MaxTraceLen samples on these lines
AnalyzeTraces ==
  UNION { [1 .. n -> SUBSET WordBits] : n \in 0 .. MaxTraceLen }

\* every strobe slope and valid polarity; codeword mask 3 at shift 0 or 1,
\* or no codeword bits
AnalyzeProtocols ==
  { [vld_mask |-> {ValidIndex}, vld_polarity |-> pol,
     strb_mask |-> {StrobeIndex}, strb_slope |-> slope,
     cw_mask |-> Bits(m[1]), cw_shift |-> m[2]]
    : pol \in 0 .. 3, slope \in 0 .. 3,
      m \in {<<NumCodewords - 1, 0>>, <<NumCodewords - 1, 1>>, <<0, 0>>} }

InitAnalyze ==
  /\ pc = "_analyze_dio_data"
  /\ fn_args \in { [fn |-> "_analyze_dio_data", data |-> d, p |-> q]
                    : d \in AnalyzeTraces, q \in AnalyzeProtocols }
  /\ fn_ret = "none"
  /\ InitParked

CallAnalyzeDioData ==
  Return("_analyze_dio_data", AnalyzeDioData(fn_args.data, fn_args.p))

NextAnalyze == CallAnalyzeDioData

SpecAnalyze == InitAnalyze /\ [][NextAnalyze]_vars

\* bound on the length of the longer traces, drawn from fewer lines
MaxLongLen == 3

\* one codeword line, strobe and valid
LongBits == {0, StrobeIndex, ValidIndex}

\* every trace of at most MaxLongLen samples on these lines
LongTraces ==
  UNION { [1 .. n -> SUBSET LongBits] : n \in 0 .. MaxLongLen }

InitLong ==
  /\ pc = "_analyze_dio_data"
  /\ fn_args \in { [fn |-> "_analyze_dio_data", data |-> d, p |-> q]
                    : d \in LongTraces, q \in AnalyzeProtocols }
  /\ fn_ret = "none"
  /\ InitParked

SpecLong == InitLong /\ [][NextAnalyze]_vars

\* the bits the arguments of _get_edges are drawn from
EdgeBits == {0, 1, ValidIndex}

InitEdges ==
  /\ pc = "_get_edges"
  /\ fn_args \in { [fn |-> "_get_edges", value |-> v, last_value |-> l,
                     mask |-> m]
                    : v \in SUBSET EdgeBits, l \in SUBSET EdgeBits,
                      m \in SUBSET EdgeBits }
  /\ fn_ret = "none"
  /\ InitParked

CallGetEdges ==
  Return("_get_edges",
         GetEdges(fn_args.value, fn_args.last_value, fn_args.mask))

NextEdges == CallGetEdges

SpecEdges == InitEdges /\ [][NextEdges]_vars

(***************************************************************************)
(* assure_ext_clock.  The instrument syncs to the external reference after *)
(* the source is written; a failed sync forces the source back to internal *)
(* (comments of lines 136-137 and 147-150).                                *)
(***************************************************************************)
\* bound on the writes of the clock source in one call
MaxClockWrites == 8

\* what assure_ext_clock never touches
notClockVars ==
  <<enable, dio, delay_regs, awgs_and_sequences, fnVars, configVars,
    histFind, ensureVars, calVars, findVars, call, histEnsure, histCal>>

\* the retry test taken as never true
SourceNotExternalNever(s) == FALSE

\* line 158: the test that sends the outer loop round again
SourceNotExternal(s) == s # 1

\* source and status registers as the instrument can hold them at entry
ClockStates == {<<1, 0>>, <<1, 2>>, <<0, 0>>, <<0, 1>>}

InitClock ==
  /\ pc = "assure_ext_clock"
  /\ enable = [a \in AWGS |-> 1]
  /\ \E c \in ClockStates : clock_source = c[1] /\ clock_status = c[2]
  /\ dio = ConfiguredDio
  /\ delay_regs = InitialDelayRegs
  /\ awgs_and_sequences = <<>>
  /\ call = NoCall
  /\ InitLocals
  /\ InitNoFn
  /\ source = 0 - 1
  /\ status = 0 - 1
  /\ entry_source = 0 - 1
  /\ source_writes = 0

\* lines 138-140: read the source, return if it is external
ReadSourceAtEntry ==
  /\ pc = "assure_ext_clock"
  /\ source' = clock_source
  /\ entry_source' = clock_source
  /\ pc' = IF clock_source = 1 THEN "returned" ELSE "write_source"
  /\ UNCHANGED <<notClockVars, fn_ret, clock_source, clock_status, status,
                 source_writes>>

\* line 144: select the external source; the instrument starts syncing
WriteSource ==
  /\ pc = "write_source"
  /\ source_writes < MaxClockWrites
  /\ clock_source' = 1
  /\ clock_status' = 2
  /\ source_writes' = source_writes + 1
  /\ pc' = "read_status"
  /\ UNCHANGED <<notClockVars, fn_ret, source, status, entry_source>>

\* lines 150-157: read the status, leave the inner loop when synced
ReadStatus ==
  /\ pc = "read_status"
  /\ status' = clock_status
  /\ pc' = IF clock_status = 0 THEN "read_source" ELSE "read_status"
  /\ UNCHANGED <<notClockVars, fn_ret, clock_source, clock_status, source,
                 entry_source, source_writes>>

\* lines 158-161: read the source again, retry or return
ReadSource ==
  /\ pc = "read_source"
  /\ source' = clock_source
  /\ pc' = IF SourceNotExternal(clock_source)
           THEN "write_source" ELSE "returned"
  /\ UNCHANGED <<notClockVars, fn_ret, clock_source, clock_status, status,
                 entry_source, source_writes>>

\* the instrument while the call runs: the sync to the external reference
\* succeeds
SyncSucceeds ==
  /\ pc # "returned"
  /\ clock_status = 2
  /\ clock_status' = 0
  /\ UNCHANGED <<pc, notClockVars, fn_ret, clock_source, source, status,
                 entry_source, source_writes>>

\* the instrument: the sync fails and the source is forced to internal
SyncFails ==
  /\ pc # "returned"
  /\ clock_status = 2
  /\ clock_status' = 1
  /\ clock_source' = 0
  /\ UNCHANGED <<pc, notClockVars, fn_ret, source, status, entry_source,
                 source_writes>>

\* the instrument: after a failed sync it runs on the internal reference
RunsInternal ==
  /\ pc # "returned"
  /\ clock_status = 1
  /\ clock_status' = 0
  /\ UNCHANGED <<pc, notClockVars, fn_ret, clock_source, source, status,
                 entry_source, source_writes>>

NextClock ==
  \/ ReadSourceAtEntry
  \/ WriteSource
  \/ ReadStatus
  \/ ReadSource
  \/ SyncSucceeds
  \/ SyncFails
  \/ RunsInternal

SpecClock == InitClock /\ [][NextClock]_vars

(***************************************************************************)
(* configure_codeword_protocol.  A write is [node, n, value]: n is the AWG  *)
(* or output number, AllNodes for a wildcard write; a range is written in   *)
(* tenths of a volt.                                                        *)
(***************************************************************************)
NumOutputs == 8
FluxCodewords == 8
AllNodes == 0 - 1

CodewordProtocols == {"identical", "microwave", "flux", "unknown"}

Write(node, n, value) == [node |-> node, n |-> n, value |-> value]

\* lines 381-408: the writes of the mask shift branch for one AWG
MaskShiftWrites(protocol, awg_nr) ==
  IF protocol = "identical"
  THEN <<Write("dio/mask/shift", awg_nr, 0)>>
  ELSE IF protocol = "microwave"
  THEN <<Write("dio/mask/shift", awg_nr,
               IF awg_nr \in {0, 1} THEN 0 ELSE MicrowaveShift)>>
  ELSE IF protocol = "flux"
  THEN <<Write("dio/mask/value", awg_nr, FluxCodewords - 1),
         Write("dio/mask/shift", awg_nr, 0)>>
  ELSE <<>>

\* lines 359-408: the loop over the AWGs, from awg_nr on
RECURSIVE DioWrites(_, _)
DioWrites(protocol, awg_nr) ==
  IF awg_nr >= NumAwgs THEN <<>>
  ELSE <<Write("dio/valid/index", awg_nr, ValidIndex),
         Write("dio/valid/polarity", awg_nr, ValidPolarity),
         Write("dio/strobe/index", awg_nr, StrobeIndex),
         Write("dio/strobe/slope", awg_nr, StrobeSlope),
         Write("dio/mask/value", awg_nr, NumCodewords - 1)>>
         \o MaskShiftWrites(protocol, awg_nr)
         \o DioWrites(protocol, awg_nr + 1)

\* lines 415-424: the loop over the outputs, from ch on
RECURSIVE ModeWrites(_, _)
ModeWrites(protocol, ch) ==
  IF ch >= NumOutputs THEN <<>>
  ELSE <<Write("sigouts/direct", ch, IF protocol = "flux" THEN 0 ELSE 1),
         Write("sigouts/range", ch, IF protocol = "flux" THEN 50 ELSE 8)>>
         \o ModeWrites(protocol, ch + 1)

\* lines 411-412
FunctionGeneratorWrites == <<Write("sigouts/enables", AllNodes, 0)>>

\* lines 427-432
EnableWrites ==
  <<Write("awgs/enable", AllNodes, 1), Write("sigouts/on", AllNodes, 1)>>

\* the AWGs and outputs enabled before the protocol is configured
ConfigureWritesEnableFirst(protocol) ==
  EnableWrites \o DioWrites(protocol, 0) \o FunctionGeneratorWrites
    \o ModeWrites(protocol, 0)

\* lines 358-432: every write of the function, in program order
ConfigureWrites(protocol) ==
  DioWrites(protocol, 0) \o FunctionGeneratorWrites
    \o ModeWrites(protocol, 0) \o EnableWrites

\* the register of dio[n] a write addresses, "" if none
DioField(node) ==
  IF node = "dio/valid/index" THEN "valid_index"
  ELSE IF node = "dio/valid/polarity" THEN "valid_polarity"
  ELSE IF node = "dio/strobe/index" THEN "strobe_index"
  ELSE IF node = "dio/strobe/slope" THEN "strobe_slope"
  ELSE IF node = "dio/mask/value" THEN "mask_value"
  ELSE IF node = "dio/mask/shift" THEN "mask_shift"
  ELSE ""

\* the registers before configuration: all zero, the AWGs off
InitConfigure ==
  /\ pc = "configure_codeword_protocol"
  /\ cfg_codeword_protocol \in CodewordProtocols
  /\ written = <<>>
  /\ enable = [a \in AWGS |-> 0]
  /\ clock_source = 1
  /\ dio = [a \in AWGS |->
              [valid_index |-> 0, valid_polarity |-> 0, strobe_index |-> 0,
               strobe_slope |-> 0, mask_value |-> 0, mask_shift |-> 0]]
  /\ delay_regs = InitialDelayRegs
  /\ awgs_and_sequences = <<>>
  /\ call = NoCall
  /\ InitLocals
  /\ InitClockIdle
  /\ fn_args = NoArgs
  /\ fn_ret = "none"

\* the next write of the function, and its effect on the registers
ConfigureWrite ==
  /\ pc = "configure_codeword_protocol"
  /\ LET program == ConfigureWrites(cfg_codeword_protocol)
         w == program[Len(written) + 1]
     IN  /\ written' = Append(written, w)
         /\ dio' = IF DioField(w.node) # ""
                   THEN [dio EXCEPT ![w.n][DioField(w.node)] = w.value]
                   ELSE dio
         /\ enable' = IF w.node = "awgs/enable"
                      THEN [a \in AWGS |-> w.value] ELSE enable
         /\ pc' = IF Len(written) + 1 = Len(program)
                  THEN "returned" ELSE pc
  /\ UNCHANGED <<clock_source, delay_regs, awgs_and_sequences, fnVars,
                 clockVars, cfg_codeword_protocol, histFind, ensureVars,
                 calVars, findVars, call, histEnsure, histCal>>

NextConfigure == ConfigureWrite

SpecConfigure == InitConfigure /\ [][NextConfigure]_vars

\* the delay d is in the list the search is building
InValidDelays(d) == \E i \in 1 .. Len(valid_delays) : valid_delays[i] = d

\* the codeword mask of the AWG searched
SearchedMask == Protocol(Awg(1)).cw_mask

\* C11 (as claimed): no delay is tested with more than 6 captures, the
\* first one and at most 5 retries.
AtMostSixCaptures ==
  /\ captures <= TimeoutLimit + 1
  /\ classified.captures <= TimeoutLimit + 1

\* C11: no delay is tested with more than 7 captures, the first one and at
\* most 6 retries; with a non-zero codeword mask a delay given up on has
\* had exactly 7 captures, none of which decoded a codeword.
AtMostSevenCaptures ==
  /\ captures <= TimeoutLimit + 2
  /\ classified.captures <= TimeoutLimit + 2
  /\ (classified # NotClassified /\ classified.codewords = <<>>
        /\ SearchedMask # {})
       => classified.captures = TimeoutLimit + 2

AtMostSevenCapturesWitness ==
  /\ classified # NotClassified
  /\ SearchedMask # {}
  /\ classified.codewords = <<>>
  /\ classified.captures = TimeoutLimit + 2
  /\ ~InValidDelays(classified.delay)

\* C12 (as claimed): a delay for which some capture recorded a timing
\* violation is not in valid_delays, and no capture is taken for a delay
\* after a capture that recorded a timing violation.
ViolationIsDefinitive ==
  /\ ~captured_after_violation
  /\ classified # NotClassified =>
       /\ ~classified.captured_after_violation
       /\ classified.violation_seen => ~InValidDelays(classified.delay)

\* decoded cws follows expected cyclically from offset o (counted from 0)
FollowsCyclically(cws, expected, o) ==
  \A k \in 1 .. Len(cws) :
    cws[k] = expected[((o + k - 1) % Len(expected)) + 1]

\* C13 (as claimed): a delay classified from a violation-free capture whose
\* non-empty codeword sequence follows the expected sequence cyclically
\* from some offset is in valid_delays.
CyclicFromAnyOffsetIncluded ==
  ( /\ classified # NotClassified
    /\ classified.timing_violations = <<>>
    /\ classified.codewords # <<>>
    /\ \E o \in 0 .. (Len(Sequence(1)) - 1) :
         FollowsCyclically(classified.codewords, Sequence(1), o) )
  => InValidDelays(classified.delay)

\* C14 (as claimed): a delay classified from a violation-free capture with
\* a non-empty codeword sequence c is in valid_delays exactly when c[0]
\* occurs in the expected sequence at an index i from which c follows the
\* expected sequence cyclically.
AcceptedIffCyclicFromIndex ==
  ( /\ classified # NotClassified
    /\ classified.timing_violations = <<>>
    /\ classified.codewords # <<>> )
  => ( InValidDelays(classified.delay)
       <=> \E i \in 0 .. (Len(Sequence(1)) - 1) :
             /\ Sequence(1)[i + 1] = classified.codewords[1]
             /\ FollowsCyclically(classified.codewords, Sequence(1), i) )

\* C15: called on a trace whose strobe bit toggles with equal run lengths
\* (partial runs first and last, no other checked bit toggling),
\* _is_dio_strb_symmetric returns true.
EqualRunsAreSymmetric ==
  (pc = "returned" /\ fn_args.fn = "_is_dio_strb_symmetric"
     /\ fn_args.changed = 0)
  => fn_ret = TRUE

EqualRunsAreSymmetricWitness ==
  /\ pc = "returned"
  /\ fn_args.fn = "_is_dio_strb_symmetric"
  /\ fn_args.changed = 0
  /\ fn_args.run = 1
  /\ fn_args.runs = MaxRuns
  /\ Len(fn_args.data) = MaxRuns + 2
  /\ fn_ret = TRUE

\* C16 (as claimed): called on such a trace with one complete run changed
\* to another length, _is_dio_strb_symmetric returns false.
ChangedRunIsAsymmetric ==
  (pc = "returned" /\ fn_args.fn = "_is_dio_strb_symmetric"
     /\ fn_args.changed # 0)
  => fn_ret = FALSE

\* _analyze_dio_data has returned from the call recorded in fn_args
Analyzed == pc = "returned" /\ fn_args.fn = "_analyze_dio_data"

\* position n (counted from 0) of the analysed trace
Sample(n) == fn_args.data[n + 1]

\* the strobe edge policy: position n is a sample point
SamplePoint(n) ==
  LET was == StrobeIndex \in Sample(n - 1)
      is == StrobeIndex \in Sample(n)
      slope == fn_args.p.strb_slope
  IN  \/ slope = 0
      \/ slope = 1 /\ ~was /\ is
      \/ slope = 2 /\ was /\ ~is
      \/ slope = 3 /\ was # is

\* line b differs between positions n - 1 and n
LineChanged(n, b) == (b \in Sample(n - 1)) # (b \in Sample(n))

ValidChanged(n) == LineChanged(n, ValidIndex)

CodewordChanged(n) ==
  \E b \in fn_args.p.cw_mask : LineChanged(n, b + fn_args.p.cw_shift)

\* n is among the reported violation positions
Reported(n) ==
  \E i \in 1 .. Len(fn_ret.timing_violations) :
    fn_ret.timing_violations[i] = n

Positions == 1 .. (Len(fn_args.data) - 1)

\* C17 (as claimed): n is reported exactly when n is a sample point and the
\* valid bit or a bit of the shifted codeword mask changed from n - 1 to n,
\* under every valid polarity.
ViolationIffChangeAtSamplePoint ==
  Analyzed =>
    \A n \in Positions :
      Reported(n) <=>
        (SamplePoint(n) /\ (ValidChanged(n) \/ CodewordChanged(n)))

\* C17: n is reported exactly when n is a sample point and a bit of the
\* shifted codeword mask changed from n - 1 to n or, unless the valid
\* polarity is 0, the valid bit changed.
ViolationIffWatchedChangeAtSamplePoint ==
  Analyzed =>
    \A n \in Positions :
      Reported(n) <=>
        /\ SamplePoint(n)
        /\ \/ CodewordChanged(n)
           \/ fn_args.p.vld_polarity # 0 /\ ValidChanged(n)

ViolationIffWatchedChangeAtSamplePointWitness ==
  /\ Analyzed
  /\ fn_args.p.vld_polarity = 0
  /\ fn_args.p.strb_slope = 2
  /\ fn_args.p.cw_mask # {}
  /\ Len(fn_args.data) = 2
  /\ SamplePoint(1)
  /\ ValidChanged(1)
  /\ ~CodewordChanged(1)
  /\ ~Reported(1)

\* valid is active at position n
ValidActive(n) ==
  LET pol == fn_args.p.vld_polarity
  IN  \/ pol \in {1, 3} /\ ValidIndex \notin Sample(n)
      \/ pol \in {2, 3} /\ ValidIndex \in Sample(n)

Decoded(n) == SamplePoint(n) /\ ValidActive(n)

\* the codeword appended for position n: one is appended per decoded
\* position, in order
AppendedFor(n) ==
  fn_ret.codewords[Cardinality({m \in 1 .. n : Decoded(m)})]

\* C18: when the word at a decoded position is (c << shift) | other with c
\* within the codeword mask and other outside the shifted mask, the
\* codeword appended for the position is c.
CodewordRoundTrip ==
  Analyzed =>
    \A n \in Positions : \A c \in 0 .. (NumCodewords - 1) :
      \A other \in SUBSET WordBits :
        ( /\ Decoded(n)
          /\ Bits(c) \subseteq fn_args.p.cw_mask
          /\ other \cap Shl(fn_args.p.cw_mask, fn_args.p.cw_shift) = {}
          /\ Sample(n) = Shl(Bits(c), fn_args.p.cw_shift) \cup other )
        => ( /\ Len(fn_ret.codewords)
                  = Cardinality({m \in Positions : Decoded(m)})
             /\ AppendedFor(n) = c )

CodewordRoundTripWitness ==
  /\ Analyzed
  /\ fn_args.p.cw_shift = 1
  /\ fn_args.p.cw_mask = {0, 1}
  /\ Len(fn_args.data) = 2
  /\ Decoded(1)
  /\ Sample(1) = {0, 1, StrobeIndex, ValidIndex}
  /\ fn_ret.codewords = <<1>>

\* C19: _get_edges returns as rising the bits of mask that are 0 in
\* last_value and 1 in value, as falling the bits of mask that are 1 in
\* last_value and 0 in value; no bit is in both, both are within mask.
EdgesPerMaskBit ==
  (pc = "returned" /\ fn_args.fn = "_get_edges") =>
    /\ \A b \in BitPositions :
         /\ b \in fn_ret.re <=>
              (b \in fn_args.mask /\ b \notin fn_args.last_value
                 /\ b \in fn_args.value)
         /\ b \in fn_ret.fe <=>
              (b \in fn_args.mask /\ b \in fn_args.last_value
                 /\ b \notin fn_args.value)
    /\ fn_ret.re \cap fn_ret.fe = {}
    /\ fn_ret.re \subseteq fn_args.mask
    /\ fn_ret.fe \subseteq fn_args.mask

EdgesPerMaskBitWitness ==
  /\ pc = "returned"
  /\ fn_args.fn = "_get_edges"
  /\ fn_args.mask = {0, ValidIndex}
  /\ fn_args.last_value = {0, 1}
  /\ fn_args.value = {ValidIndex}
  /\ fn_ret.re = {ValidIndex}
  /\ fn_ret.fe = {0}

\* C20: when assure_ext_clock has returned, the source it read last is
\* external and the instrument's source is external; if the source read at
\* entry was external, the source was never written; otherwise it was
\* written and the status read last was synced.
ReturnsOnExternalClock ==
  (pc = "returned" /\ entry_source # 0 - 1) =>
    /\ source = 1
    /\ clock_source = 1
    /\ entry_source = 1 => source_writes = 0
    /\ entry_source # 1 => (source_writes > 0 /\ status = 0)

ReturnsOnExternalClockWitness ==
  /\ pc = "returned"
  /\ entry_source = 0
  /\ source_writes = 2
  /\ status = 0
  /\ source = 1

\* the writes that must precede the enabling: protocol registers, function
\* generators, direct mode
SetupNodes ==
  {"dio/valid/index", "dio/valid/polarity", "dio/strobe/index",
   "dio/strobe/slope", "dio/mask/value", "dio/mask/shift",
   "sigouts/enables", "sigouts/direct"}

WrittenAt(node) == {i \in 1 .. Len(written) : written[i].node = node}

\* C21: in configure_codeword_protocol no protocol register, function
\* generator or direct mode write follows the enabling of the AWGs or of
\* the outputs, and the AWGs are enabled before the outputs are turned on;
\* when the AWGs are enabled, the function generators are disabled, all 8
\* outputs have their mode and (for a known protocol) every protocol
\* register of every AWG is written.
EnablingIsLast ==
  /\ \A i \in WrittenAt("awgs/enable") \cup WrittenAt("sigouts/on") :
       \A j \in 1 .. Len(written) :
         written[j].node \in SetupNodes => j < i
  /\ \A i \in WrittenAt("sigouts/on") :
       \E j \in WrittenAt("awgs/enable") : j < i
  /\ WrittenAt("awgs/enable") # {} =>
       /\ WrittenAt("sigouts/enables") # {}
       /\ \A ch \in 0 .. (NumOutputs - 1) :
            \E j \in WrittenAt("sigouts/direct") : written[j].n = ch
       /\ \A a \in AWGS :
            \A node \in SetupNodes \ {"sigouts/enables", "sigouts/direct"} :
              (node = "dio/mask/shift"
                 => cfg_codeword_protocol # "unknown")
              => \E j \in WrittenAt(node) : written[j].n = a
  /\ pc = "returned" =>
       (WrittenAt("awgs/enable") # {} /\ WrittenAt("sigouts/on") # {})

EnablingIsLastWitness ==
  /\ pc = "returned"
  /\ cfg_codeword_protocol = "microwave"
  /\ dio = ConfiguredDio
  /\ enable = [a \in AWGS |-> 1]
  /\ written[Len(written)].node = "sigouts/on"
  /\ written[Len(written) - 1].node = "awgs/enable"

AllDisabled == [a \in AWGS |-> 0]

\* the steps of one resynchronization, each leading to the next
ResyncStep ==
  /\ pc = "resync_disable" =>
       /\ pc' = "resync_internal"
       /\ enables' = enable
       /\ enable' = AllDisabled
       /\ clock_source' = clock_source
  /\ pc = "resync_internal" =>
       /\ pc' = "resync_external"
       /\ clock_source' = 0
       /\ enable' = AllDisabled
  /\ pc = "resync_external" =>
       /\ pc' = "resync_restore"
       /\ clock_source' = 1
       /\ enable' = AllDisabled
  /\ pc = "resync_restore" =>
       /\ pc' \in {"ensure_capture", "ensure_return"}
       /\ enable' = enables
       /\ clock_source' = 1
  /\ (pc = "ensure_capture" /\ sym_run' = 0) => pc' = "resync_disable"

\* C22: after an asymmetric capture the enable flags are saved and cleared,
\* the clock source is set to internal, then to external, the flags are
\* restored, and only then is the next capture taken.  Entered with the
\* external clock selected, every capture is taken with the external clock
\* and the enable flags of entry, and the clock source is internal only
\* between the two switches, while all AWGs are disabled.
ResyncStepsInOrder ==
  /\ [][ResyncStep]_vars
  /\ [](pc = "ensure_capture" =>
          (clock_source = 1 /\ enable = entry_enable))
  /\ [](clock_source = 0 =>
          (pc = "resync_external" /\ enable = AllDisabled))
  /\ []((resync_run > 0 /\ ~InResync) => clock_source = 1)

ResyncStepsInOrderWitness ==
  /\ pc = "ensure_capture"
  /\ resync_run = 2
  /\ clock_source = 1
  /\ enable = entry_enable
  /\ enable[0] = 1
  /\ enable[3] = 0

\* C23: in one search the k-th call of _set_dio_delay programs setting
\* k - 1 on the AWG searched, 7 calls are made in all, retries and
\* classifications use captures taken while the setting under test is the
\* one programmed last, and valid_delays is an ascending list within 0..6.
AscendingSweep ==
  /\ [][delay_calls' # delay_calls =>
          /\ delay_calls' = delay_calls + 1
          /\ call'.delay = delay_calls
          /\ call'.awg = Awg(chan)]_vars
  /\ [](pc = "find_return" => delay_calls = MaxDelay + 1)
  /\ [](pc = "retry" => (call.delay = delay /\ delay_calls = delay + 1))
  /\ [](classified # NotClassified =>
          (call.delay = classified.delay
             /\ delay_calls = classified.delay + 1))
  /\ [](\A i \in 1 .. Len(valid_delays) :
          /\ valid_delays[i] \in 0 .. MaxDelay
          /\ \A j \in 1 .. (i - 1) : valid_delays[j] < valid_delays[i])

AscendingSweepWitness ==
  /\ pc = "find_return"
  /\ delay_calls = MaxDelay + 1
  /\ call.delay = MaxDelay
  /\ valid_delays = <<0, MidDelay, MaxDelay>>

\* C24: with a non-zero codeword mask, a delay classified without any
\* codeword decoded is not in valid_delays and, unless it was the last
\* setting, the sweep goes on with the next setting.
UndecodedDelayExcluded ==
  ( /\ classified # NotClassified
    /\ classified.codewords = <<>>
    /\ SearchedMask # {} )
  => /\ ~InValidDelays(classified.delay)
     /\ classified.delay < MaxDelay =>
          (pc = "test_delay" /\ delay = classified.delay + 1)
     /\ given_up

\* a delay is accepted after an earlier one was given up
UndecodedDelayExcludedWitness ==
  /\ given_up
  /\ SearchedMask # {}
  /\ classified # NotClassified
  /\ classified.codewords # <<>>
  /\ valid_delays = <<classified.delay>>

\* C25: a retry is pending only while nothing has been decoded and the
\* codeword mask is non-zero; a delay classified before the retries are
\* used up was classified from a capture that decoded a codeword, or under
\* a zero codeword mask; under a zero codeword mask every delay is
\* classified from its one and only capture.
RetryOnlyWhileUndecoded ==
  /\ pc = "retry" => (codewords = <<>> /\ SearchedMask # {})
  /\ (classified # NotClassified /\ SearchedMask # {}
        /\ classified.captures < TimeoutLimit + 2)
       => classified.codewords # <<>>
  /\ SearchedMask = {} =>
       /\ captures = 0
       /\ classified # NotClassified => classified.captures = 1

RetryOnlyWhileUndecodedWitness ==
  /\ SearchedMask = {}
  /\ classified # NotClassified
  /\ classified.codewords = <<>>
  /\ classified.captures = 1
  /\ classified.delay = MidDelay
  /\ InValidDelays(MidDelay)

\* _set_dio_delay has returned from the call recorded in call
DelaySet == pc = "set_dio_delay_done"

\* the delay line of the AWG the call addressed
Line == delay_regs.value[call.awg]

\* C26: after _set_dio_delay with a delay d in 0..6, the strobe bit holds
\* max(0, d - 3) and the valid bit (a data bit) holds max(0, 3 - d): one of
\* the two is 0, both are 0 only for d = 3, their difference is d - 3 and
\* both lie in 0..3.
DelaySplit ==
  (DelaySet /\ call.delay \in 0 .. MaxDelay) =>
    LET d == call.delay
        strb == Line[StrobeIndex]
        data == Line[ValidIndex]
    IN  /\ strb = (IF d - 3 > 0 THEN d - 3 ELSE 0)
        /\ data = (IF 3 - d > 0 THEN 3 - d ELSE 0)
        /\ strb = 0 \/ data = 0
        /\ (strb = 0 /\ data = 0) <=> d = 3
        /\ strb - data = d - 3
        /\ strb \in 0 .. 3
        /\ data \in 0 .. 3

DelaySplitWitness ==
  /\ DelaySet
  /\ call.delay = MaxDelay
  /\ Line[StrobeIndex] = 3
  /\ Line[ValidIndex] = 0

\* C27: after _set_dio_delay every bit of the AWG's delay line holds the
\* strobe-side delay if it is in strb_mask, else the data-side delay if it
\* is in data_mask, else 0, for every requested delay.
DelayRoutedByMask ==
  DelaySet =>
    LET d == ClampDelay(call.delay)
    IN  \A i \in BitPositions :
          Line[i] = IF i \in call.strb_mask THEN StrbDelay(d)
                    ELSE IF i \in call.data_mask THEN DataDelay(d)
                    ELSE 0

DelayRoutedByMaskWitness ==
  /\ DelaySet
  /\ call.delay = 1
  /\ 0 \in call.strb_mask \cap call.data_mask
  /\ 1 \in call.data_mask \ call.strb_mask
  /\ Line[0] = 0
  /\ Line[1] = 2
  /\ Line[2] = 0

\* C28: the codewords of a trace analysed with valid always active
\* (polarity 3) are as many as its sample points, and a position at which
\* the valid bit changed (polarity not 0) is reported exactly when it is a
\* sample point: every position for slope 0, the rising strobe edges for
\* slope 1, the falling ones for slope 2, both for slope 3.
SamplePointPolicy ==
  Analyzed =>
    /\ fn_args.p.vld_polarity = 3 =>
         Len(fn_ret.codewords)
           = Cardinality({n \in Positions : SamplePoint(n)})
    /\ fn_args.p.vld_polarity # 0 =>
         \A n \in Positions :
           ValidChanged(n) => (Reported(n) <=> SamplePoint(n))

SamplePointPolicyWitness ==
  /\ Analyzed
  /\ fn_args.p.vld_polarity = 3
  /\ fn_args.p.strb_slope = 1
  /\ fn_args.data = <<{}, {StrobeIndex, 0}>>
  /\ fn_args.p.cw_shift = 0
  /\ fn_ret.codewords = <<1>>

\* the codeword field of the sample at position n
FieldAt(n) ==
  ToInt({b \in fn_args.p.cw_mask : b + fn_args.p.cw_shift \in Sample(n)})

LevelsChecked == pc = "returned" /\ fn_args.fn = "_is_dio_strb_symmetric"

\* the listed bits, and the verdict on one bit judged alone on the trace
ListedBits == { fn_args.bits[k] : k \in 1 .. Len(fn_args.bits) }
SingleBit(b) == StrbLoop(StrbInit, fn_args.data, 1, b).count_ok

\* C31: _is_dio_strb_symmetric over several bits returns the conjunction
\* of the verdicts of the listed bits, each judged alone on the same trace:
\* true only if every listed bit is symmetric, whatever the order of the
\* list.
AllBitsSymmetric ==
  LevelsChecked => (fn_ret = (\A b \in ListedBits : SingleBit(b)))

AllBitsSymmetricWitness ==
  /\ LevelsChecked
  /\ fn_args.bits = <<0, StrobeIndex>>
  /\ ~SingleBit(0)
  /\ SingleBit(StrobeIndex)
  /\ \E n \in 2 .. Len(fn_args.data) :
        (StrobeIndex \in fn_args.data[n]) # (StrobeIndex \in fn_args.data[n - 1])
  /\ fn_ret = FALSE

\* a call of _set_dio_delay is made, the search of a list position begins,
\* the final application makes a call
DelayWritten == delay_calls' # delay_calls \/ delay_regs' # delay_regs
SearchBegins == searched' # searched
ApplicationWrites == applied' # applied

\* the step keeps the phases of calibrate_dio_protocol apart
PhaseStep ==
  /\ DelayWritten => strobe_ok = "True"
  /\ SearchBegins =>
       /\ searched' = Append(searched, Len(searched) + 1)
       /\ delay_calls = (MaxDelay + 1) * Len(searched)
       /\ Len(all_valid_delays) = Len(searched)
       /\ searched # <<>> => delay = MaxDelay + 1
       /\ applied = <<>>
  /\ ApplicationWrites =>
       /\ Len(searched) = Len(awgs_and_sequences)
       /\ Len(all_valid_delays) = Len(awgs_and_sequences)
       /\ delay_calls
            = (MaxDelay + 1) * Len(awgs_and_sequences) + Len(applied)

\* C32: in calibrate_dio_protocol no delay register is written before
\* _ensure_symmetric_strobe has returned true; the search of list position
\* k + 1 begins only when position k has had all 7 delay settings
\* programmed and its result recorded; the final application writes only
\* when every list position has been searched.
PhasesAreSequential == [][PhaseStep]_vars

PhasesAreSequentialWitness ==
  /\ result = "True"
  /\ Len(awgs_and_sequences) = 2
  /\ searched = <<1, 2>>
  /\ Len(applied) = 2
  /\ delay_calls = (MaxDelay + 1) * 2 + 2

\* _find_valid_delays has returned for list position k
SearchReturned(k) ==
  /\ k \in 1 .. Len(searched)
  /\ k < Len(searched) \/ pc \notin {"test_delay", "retry"}

\* the delay line of the AWG at list position k holds setting 6: the
\* strobe bit 3, every other bit 0
LeftAtLastSetting(k) ==
  delay_regs.value[Awg(k)]
    = [i \in BitPositions |->
         IF i \in Protocol(Awg(k)).strb_mask THEN MaxDelay - MidDelay ELSE 0]

\* calibrate_dio_protocol returned false because a search found no delay
EmptySearchEnded == pc = "done" /\ result = "False" /\ strobe_ok = "True"

\* C33: once _find_valid_delays has returned for a list position, and
\* until the final application reaches that position, the delay line of
\* its AWG holds setting 6 (strobe bit 3, data bits 0) whatever set was
\* returned; so when calibrate_dio_protocol returns false for an empty
\* search, every AWG searched so far is at setting 6 and not at the delay
\* it had before the calibration.
SearchLeavesLastSetting ==
  /\ \A k \in 1 .. Len(awgs_and_sequences) :
        (SearchReturned(k) /\ k > Len(applied)) => LeftAtLastSetting(k)
  /\ EmptySearchEnded =>
        \A k \in 1 .. Len(searched) :
          /\ LeftAtLastSetting(k)
          /\ delay_regs.value[Awg(k)] # InitialDelayRegs.value[Awg(k)]

SearchLeavesLastSettingWitness ==
  /\ EmptySearchEnded
  /\ searched = <<1, 2>>
  /\ Len(all_valid_delays) = 1
  /\ delay_calls = (MaxDelay + 1) * 2
  /\ LeftAtLastSetting(1)
  /\ LeftAtLastSetting(2)

\* _ensure_symmetric_strobe has returned
EnsureReturned == strobe_ok # "none"

\* C34: as long as every capture taken by _ensure_symmetric_strobe was
\* symmetric, it has made no write: no enable flag and no clock source was
\* written, both are as at entry; and when it returns after symmetric
\* captures only, it returns true.
SymmetricCapturesWriteNothing ==
  ~asymmetric_seen =>
    /\ ~wrote
    /\ enable = entry_enable
    /\ clock_source = 1
    /\ EnsureReturned => strobe_ok = "True"

SymmetricCapturesWriteNothingWitness ==
  /\ EnsureReturned
  /\ ~asymmetric_seen
  /\ ~wrote
  /\ sym_run = ShotLimit + 1
  /\ strobe_ok = "True"
  /\ enable = [a \in AWGS |-> IF a = 0 THEN 1 ELSE 0]

\* the positions at which line b of the trace changes level
EdgesOf(b) ==
  { n \in 2 .. Len(fn_args.data) :
      (b \in fn_args.data[n]) # (b \in fn_args.data[n - 1]) }

\* C35: called on a trace in which every listed bit has at most two edges
\* (the empty trace and a constant trace included), or with an empty list
\* of bits, _is_dio_strb_symmetric returns true: a run that is not closed
\* by edges on both sides is never compared.
FewEdgesAreSymmetric ==
  (LevelsChecked /\ \A b \in ListedBits : Cardinality(EdgesOf(b)) <= 2)
  => fn_ret = TRUE

FewEdgesAreSymmetricWitness ==
  /\ LevelsChecked
  /\ fn_args.bits = <<StrobeIndex, 0>>
  /\ Len(fn_args.data) = MaxLevels
  /\ EdgesOf(StrobeIndex) = {2, 4}
  /\ EdgesOf(0) = {3, 4}
  /\ fn_ret = TRUE

\* the seti calls the _set_dio_delay call made, in order
Log == delay_regs.log

\* C36: one call of _set_dio_delay makes 64 writes: for i = 0, 1, ..., 31
\* in this order the index register of the given AWG is set to i and the
\* next write sets the value register of that AWG to what the delay line
\* then holds at bit i; so each index is selected once, there are 32 value
\* writes, each directly after its index write, and no register of another
\* AWG is written: their index registers and delay lines are unchanged.
WriteProtocol ==
  DelaySet =>
    /\ Len(Log) = 2 * BusWidth
    /\ \A i \in BitPositions :
         /\ Log[2 * i + 1] = [node |-> "index", awg |-> call.awg,
                              value |-> i]
         /\ Log[2 * i + 2] = [node |-> "value", awg |-> call.awg,
                              value |-> Line[i]]
    /\ \A a \in AWGS \ {call.awg} :
         /\ delay_regs.index[a] = InitialDelayRegs.index[a]
         /\ delay_regs.value[a] = InitialDelayRegs.value[a]

WriteProtocolWitness ==
  /\ DelaySet
  /\ call.awg = NumAwgs - 1
  /\ call.delay = MaxDelay
  /\ Len(Log) = 2 * BusWidth
  /\ Log[2 * StrobeIndex + 2].value = MaxDelay - MidDelay
  /\ delay_regs.index[call.awg] = BusWidth - 1

\* the outputs of the analysis
Violations == fn_ret.timing_violations
Codewords == fn_ret.codewords

\* C37: for a trace of L samples _analyze_dio_data reports violation
\* positions (counted from 0) that are strictly increasing and lie in
\* 1..L-1, so none is listed twice and the first sample is never one; it
\* returns at most L-1 codewords, exactly L-1 when every position is a
\* sample point with valid active; a trace of 0 or 1 samples yields two
\* empty outputs.
OutputBounds ==
  Analyzed =>
    /\ \A k \in 1 .. Len(Violations) : Violations[k] \in Positions
    /\ \A k \in 1 .. (Len(Violations) - 1) :
         Violations[k] < Violations[k + 1]
    /\ Len(Codewords) <= Cardinality(Positions)
    /\ (fn_args.p.strb_slope = 0 /\ fn_args.p.vld_polarity = 3) =>
         Len(Codewords) = Cardinality(Positions)
    /\ Len(fn_args.data) <= 1 => (Codewords = <<>> /\ Violations = <<>>)

OutputBoundsWitness ==
  /\ Analyzed
  /\ Len(fn_args.data) = MaxLongLen
  /\ fn_args.p.strb_slope = 3
  /\ Violations = <<1, 2>>
  /\ Len(Codewords) = 2
  /\ ValidChanged(1)
  /\ CodewordChanged(1)

=============================================================================
